---- MODULE Spec2Model ----
(***************************************************************************)
(* A model of src/auto_memory_model/main.py: the derivation of the run     *)
(* name from the command-line options, the bootstrap of the model          *)
(* directory tree, the resolution of the data directories, the config      *)
(* record, and the handoff to Experiment.                                  *)
(*                                                                         *)
(* Python values are tagged records: [int |-> 7], [str |-> "base"],        *)
(* [float |-> "0.5"] (a float is carried by its repr), [bool |-> TRUE] and  *)
(* [none |-> TRUE].  Python strings are TLA+ strings; ordered dicts are    *)
(* sequences of <<key, value>> pairs in insertion order.  The filesystem   *)
(* is a function from path to [kind |-> "dir"] or                          *)
(* [kind |-> "file", lines |-> <<...>>].                                   *)
(***************************************************************************)
EXTENDS Integers, Sequences, FiniteSets, TLC

VARIABLES
    cli,          \* the parsed command line: dest -> value (parse_args, line 105)
    imp_order,    \* the iteration order of imp_opts (lines 110-115)
    arg_order,    \* the iteration order of vars(args) (line 130)
    fs,           \* the filesystem
    fs0,          \* the filesystem before the first invocation of main
    pc,           \* per invocation: the position in main
    args,         \* per invocation: the namespace args
    changed_opts, \* per invocation: the ordered dict of line 117
    opt_dict,     \* per invocation: the ordered dict of line 108
    model_name,   \* per invocation: line 136
    completed,    \* per invocation: the steps of main that have completed
    exc,          \* per invocation: the exception that ended main, or ""
    makedirs_frames, \* per invocation: the calls of os.makedirs in progress
    experiment_calls \* per invocation: the number of calls of Experiment

vars == <<cli, imp_order, arg_order, fs, fs0, pc, args, changed_opts,
          opt_dict, model_name, completed, exc, makedirs_frames,
          experiment_calls>>

(***************************************************************************)
(* Bounds of the model.                                                    *)
(***************************************************************************)
\* how many of the options of VariedOpts the command line may set
NumVaried == 2
\* the largest cross-validation split given on the command line
MaxSplit == 1
\* the orders tried for imp_opts and for vars(args): 0 as in the code,
\* 1 reversed, k >= 2 rotated by k - 1
MaxPerm == 2
\* how many times main is invoked with the same command line
NumInvocations == 2

(***************************************************************************)
(* Python values.                                                          *)
(***************************************************************************)
PyInt(n) == [int |-> n]
PyStr(s) == [str |-> s]
PyFloat(r) == [float |-> r]
PyBool(b) == [bool |-> b]
None == [none |-> TRUE]

\* str(val), as the f-string of line 135 and the % formatting of line 188 use it
Str(val) ==
    IF "int" \in DOMAIN val THEN ToString(val.int)
    ELSE IF "str" \in DOMAIN val THEN val.str
    ELSE IF "float" \in DOMAIN val THEN val.float
    ELSE IF "bool" \in DOMAIN val THEN (IF val.bool THEN "True" ELSE "False")
    ELSE "None"

(***************************************************************************)
(* Python strings: comparison by code point, rfind, rstrip.                *)
(***************************************************************************)
\* the characters of option names, option values and paths, in code-point
\* order, each run with the code point before its first character
Digits == "-./0123456789"
Upper == "ABCDEFGHIJKLMNOPQRSTUVWXYZ"
Lower == "abcdefghijklmnopqrstuvwxyz"

CharAt(s, i) == SubSeq(s, i, i)

IndexIn(run, c) ==
    IF \E i \in 1..Len(run) : CharAt(run, i) = c
    THEN CHOOSE i \in 1..Len(run) : CharAt(run, i) = c
    ELSE 0

\* ord(c): '-' is 45, 'A' is 65, '_' is 95, 'a' is 97
Ord(c) ==
    IF IndexIn(Digits, c) > 0 THEN 44 + IndexIn(Digits, c)
    ELSE IF IndexIn(Upper, c) > 0 THEN 64 + IndexIn(Upper, c)
    ELSE IF c = "_" THEN 95
    ELSE 96 + IndexIn(Lower, c)

RECURSIVE FirstDiff(_, _, _)
\* the first position from i at which a and b differ, or at which one ends
FirstDiff(a, b, i) ==
    IF i > Len(a) \/ i > Len(b) THEN i
    ELSE IF CharAt(a, i) # CharAt(b, i) THEN i
    ELSE FirstDiff(a, b, i + 1)

\* a < b on Python str: lexicographic by code point
StrLess(a, b) ==
    LET i == FirstDiff(a, b, 1) IN
    IF i > Len(b) THEN FALSE
    ELSE IF i > Len(a) THEN TRUE
    ELSE Ord(CharAt(a, i)) < Ord(CharAt(b, i))

RECURSIVE RFindSlash(_, _)
\* the largest position <= i holding "/", or 0: s[:i].rfind('/') + 1
RFindSlash(s, i) ==
    IF i = 0 THEN 0
    ELSE IF CharAt(s, i) = "/" THEN i
    ELSE RFindSlash(s, i - 1)

RECURSIVE RStripSlash(_)
\* s.rstrip("/")
RStripSlash(s) ==
    IF Len(s) > 0 /\ CharAt(s, Len(s)) = "/"
    THEN RStripSlash(SubSeq(s, 1, Len(s) - 1))
    ELSE s

(***************************************************************************)
(* posixpath.                                                              *)
(***************************************************************************)
\* posixpath.join(a, b)
path_join(a, b) ==
    IF Len(b) > 0 /\ CharAt(b, 1) = "/" THEN b
    ELSE IF Len(a) = 0 \/ CharAt(a, Len(a)) = "/" THEN a \o b
    ELSE a \o "/" \o b

\* posixpath.split(p): <<head, tail>>
path_split(p) ==
    LET i == RFindSlash(p, Len(p))
        head == SubSeq(p, 1, i)
        tail == SubSeq(p, i + 1, Len(p))
    IN  IF Len(head) > 0 /\ RStripSlash(head) # ""
        THEN <<RStripSlash(head), tail>>
        ELSE <<head, tail>>

\* posixpath.basename(p)
path_basename(p) == SubSeq(p, RFindSlash(p, Len(p)) + 1, Len(p))

\* posixpath.dirname(p)
path_dirname(p) == path_split(p)[1]

(***************************************************************************)
(* The filesystem, as os.path and os see it.                               *)
(***************************************************************************)
Dir == [kind |-> "dir"]
File(lines) == [kind |-> "file", lines |-> lines]

\* the entry a path names: trailing slashes do not matter to the kernel
FsKey(p) == IF RStripSlash(p) = "" THEN p ELSE RStripSlash(p)

\* os.path.exists(p)
path_exists(fsys, p) == FsKey(p) \in DOMAIN fsys

\* os.path.isdir(p)
path_isdir(fsys, p) == path_exists(fsys, p) /\ fsys[FsKey(p)].kind = "dir"

\* fsys with entry e at path p
FsPut(fsys, p, e) ==
    [q \in DOMAIN fsys \cup {FsKey(p)} |-> IF q = FsKey(p) THEN e ELSE fsys[q]]

\* the directory that holds p; "" is the current directory, which exists
ParentOf(p) == path_dirname(FsKey(p))

\* os.mkdir(name): [fs, err], err the exception raised or ""
mkdir(fsys, name) ==
    IF path_exists(fsys, name) THEN [fs |-> fsys, err |-> "FileExistsError"]
    ELSE IF ParentOf(name) # "" /\ ~path_exists(fsys, ParentOf(name))
    THEN [fs |-> fsys, err |-> "FileNotFoundError"]
    ELSE IF ParentOf(name) # "" /\ ~path_isdir(fsys, ParentOf(name))
    THEN [fs |-> fsys, err |-> "NotADirectoryError"]
    ELSE [fs |-> FsPut(fsys, name, Dir), err |-> ""]

\* os.makedirs(name): head and tail as its first lines split name
MakedirsHeadTail(name) ==
    LET s1 == path_split(name) IN
    IF s1[2] = "" THEN path_split(s1[1]) ELSE s1

\* a call of os.makedirs that never looks at the parent
MakedirsEnterNoParents(name) == [name |-> name, phase |-> "mkdir"]

\* a call of os.makedirs(name) is a frame: its next filesystem call is the
\* stat of head (path.exists(head)) when head and tail are not empty, else
\* the os.mkdir of name
MakedirsEnter(name) ==
    LET ht == MakedirsHeadTail(name) IN
    [name |-> name, phase |-> IF ht[1] # "" /\ ht[2] # "" THEN "stat" ELSE "mkdir"]

RECURSIVE MakedirsReturn(_)
\* the frames once the recursive call of the last frame has returned: a
\* frame whose tail is curdir returns without an os.mkdir
MakedirsReturn(frames) ==
    IF frames = <<>> THEN frames
    ELSE IF MakedirsHeadTail(frames[Len(frames)].name)[2] = "."
    THEN MakedirsReturn(SubSeq(frames, 1, Len(frames) - 1))
    ELSE frames

\* one filesystem call of os.makedirs, exist_ok=False, made by the last
\* (innermost) frame: [fs, frames, err, over], over when the outermost call
\* has returned or raised err.  The FileExistsError of a recursive call is
\* swallowed, any other exception and every exception of the outermost
\* os.mkdir is raised
MakedirsCall(fsys, frames) ==
    LET n == Len(frames)
        top == frames[n]
        below == SubSeq(frames, 1, n - 1)
        head == MakedirsHeadTail(top.name)[1]
    IN  IF top.phase = "stat"
        THEN [fs |-> fsys, err |-> "", over |-> FALSE,
              frames |-> IF ~path_exists(fsys, head)
                         THEN below \o <<[top EXCEPT !.phase = "mkdir"], MakedirsEnter(head)>>
                         ELSE below \o <<[top EXCEPT !.phase = "mkdir"]>>]
        ELSE LET r == mkdir(fsys, top.name) IN
             IF n = 1
             THEN [fs |-> r.fs, err |-> r.err, over |-> TRUE, frames |-> <<>>]
             ELSE IF r.err \in {"", "FileExistsError"}
             THEN [fs |-> r.fs, err |-> "", over |-> MakedirsReturn(below) = <<>>,
                   frames |-> MakedirsReturn(below)]
             ELSE [fs |-> r.fs, err |-> r.err, over |-> TRUE, frames |-> <<>>]

\* open(p, 'w'): the file is created or truncated
open_w(fsys, p) ==
    IF path_isdir(fsys, p) THEN [fs |-> fsys, err |-> "IsADirectoryError"]
    ELSE IF ParentOf(p) # "" /\ ~path_exists(fsys, ParentOf(p))
    THEN [fs |-> fsys, err |-> "FileNotFoundError"]
    ELSE IF ParentOf(p) # "" /\ ~path_isdir(fsys, ParentOf(p))
    THEN [fs |-> fsys, err |-> "NotADirectoryError"]
    ELSE [fs |-> FsPut(fsys, p, File(<<>>)), err |-> ""]

(***************************************************************************)
(* The parser: every dest with its default, in the order of the            *)
(* add_argument calls, which is the order of vars(args).                   *)
(***************************************************************************)
ParserDefaults == <<
    <<"base_data_dir", PyStr("../data/")>>,
    <<"data_dir", None>>,
    <<"singleton_file", None>>,
    <<"base_model_dir", PyStr("../models")>>,
    <<"model_dir", None>>,
    <<"dataset", PyStr("ontonotes")>>,
    <<"conll_scorer", PyStr("../resources/lrec2020-coref/reference-coreference-scorers/scorer.pl")>>,
    <<"model_size", PyStr("large")>>,
    <<"max_segment_len", PyInt(2048)>>,
    <<"max_span_width", PyInt(20)>>,
    <<"ment_emb", PyStr("attn")>>,
    <<"use_gold_ments", PyBool(FALSE)>>,
    <<"top_span_ratio", PyFloat("0.4")>>,
    <<"mem_type", PyStr("unbounded")>>,
    <<"mlp_size", PyInt(3000)>>,
    <<"cluster_mlp_size", PyInt(3000)>>,
    <<"mlp_depth", PyInt(1)>>,
    <<"entity_rep", PyStr("wt_avg")>>,
    <<"sim_func", PyStr("hadamard")>>,
    <<"emb_size", PyInt(20)>>,
    <<"max_ents", PyInt(20)>>,
    <<"eval_max_ents", None>>,
    <<"doc_class", None>>,
    <<"cross_val_split", PyInt(0)>>,
    <<"num_train_docs", None>>,
    <<"num_eval_docs", None>>,
    <<"dropout_rate", PyFloat("0.3")>>,
    <<"label_smoothing_wt", PyFloat("0.1")>>,
    <<"ment_loss", PyStr("topk")>>,
    <<"max_epochs", PyInt(25)>>,
    <<"seed", PyInt(0)>>,
    <<"max_gradient_norm", PyFloat("1.0")>>,
    <<"init_lr", PyFloat("0.0003")>>,
    <<"fine_tune_lr", PyFloat("1e-05")>>,
    <<"eval_per_k_steps", PyInt(0)>>,
    <<"update_frequency", PyInt(500)>>,
    <<"to_save_model", PyBool(TRUE)>>,
    <<"eval_model", PyBool(FALSE)>>,
    <<"slurm_id", None>> >>

\* the dests, in the order of vars(args)
ArgDests == [i \in 1..Len(ParserDefaults) |-> ParserDefaults[i][1]]

\* parser.get_default(attr)
get_default(attr) ==
    ParserDefaults[CHOOSE i \in 1..Len(ParserDefaults) : ParserDefaults[i][1] = attr][2]

\* the choices of -dataset
Datasets == {"litbank", "ontonotes", "preco", "quizbowl", "wikicoref"}

\* imp_opts, lines 110-115
imp_opts == <<"model_size", "max_segment_len",
              "ment_emb", "max_span_width", "top_span_ratio",
              "mem_type", "entity_rep", "mlp_size",
              "dropout_rate", "seed", "init_lr", "max_epochs",
              "label_smoothing_wt", "ment_loss",
              "num_train_docs", "sim_func", "fine_tune_lr", "doc_class">>

(***************************************************************************)
(* Ordered dicts and sorted().                                             *)
(***************************************************************************)
DictKeys(d) == {d[i][1] : i \in 1..Len(d)}

DictGet(d, k) == d[CHOOSE i \in 1..Len(d) : d[i][1] = k][2]

\* d[k] = v: a present key keeps its place, a new one goes last
DictSet(d, k, v) ==
    IF k \in DictKeys(d)
    THEN [i \in 1..Len(d) |-> IF d[i][1] = k THEN <<k, v>> ELSE d[i]]
    ELSE Append(d, <<k, v>>)

RECURSIVE InsertSorted(_, _)
\* item placed before the first item of the sorted list with a greater key
InsertSorted(item, sortedItems) ==
    IF sortedItems = <<>> THEN <<item>>
    ELSE IF StrLess(item[1], Head(sortedItems)[1])
    THEN <<item>> \o sortedItems
    ELSE <<Head(sortedItems)>> \o InsertSorted(item, Tail(sortedItems))

RECURSIVE sorted(_)
\* sorted(d.items()): the keys of a dict differ, so the keys alone decide
sorted(items) ==
    IF items = <<>> THEN <<>>
    ELSE InsertSorted(items[Len(items)], sorted(SubSeq(items, 1, Len(items) - 1)))

RECURSIVE JoinWith(_, _)
\* sep.join(strs)
JoinWith(sep, strs) ==
    IF strs = <<>> THEN ""
    ELSE IF Len(strs) = 1 THEN strs[1]
    ELSE strs[1] \o sep \o JoinWith(sep, Tail(strs))

(***************************************************************************)
(* Lines 108-136: the changed options, the option dict, the run name.      *)
(***************************************************************************)
RECURSIVE ChangedLoop(_, _, _)
\* lines 119-121, over the first n names of the order
ChangedLoop(a, order, n) ==
    IF n = 0 THEN <<>>
    ELSE LET d == ChangedLoop(a, order, n - 1)
             attr == order[n]
         IN  IF a[attr] # get_default(attr) THEN DictSet(d, attr, a[attr]) ELSE d

\* lines 123-124
AddSingleton(d, a, fsys) ==
    IF a["singleton_file"] # None /\ path_exists(fsys, a["singleton_file"].str)
    THEN DictSet(d, "singleton", PyStr(path_basename(a["singleton_file"].str)))
    ELSE d

\* lines 126-128
AddSplit(d, a) ==
    IF a["dataset"] = PyStr("litbank")
    THEN DictSet(d, "cross_val_split", a["cross_val_split"])
    ELSE d

\* lines 117-128
ChangedOpts(a, order, fsys) ==
    AddSplit(AddSingleton(ChangedLoop(a, order, Len(order)), a, fsys), a)

RECURSIVE OptDictLoop(_, _, _, _)
\* lines 130-132, over the first n keys of vars(args)
OptDictLoop(a, keys, changed, n) ==
    IF n = 0 THEN <<>>
    ELSE LET d == OptDictLoop(a, keys, changed, n - 1)
             key == keys[n]
         IN  IF key \in DictKeys(changed) THEN DictSet(d, key, a[key]) ELSE d

\* lines 108, 130-132
OptDict(a, keys, changed) == OptDictLoop(a, keys, changed, Len(keys))

\* line 134 without the sort: the pairs in insertion order
KeyValPairsUnsorted(od) == od

\* line 134
KeyValPairs(od) == sorted(od)

\* line 135
StrRepr(pairs) ==
    JoinWith("_", [i \in 1..Len(pairs) |-> pairs[i][1] \o "_" \o Str(pairs[i][2])])

\* line 136
ModelName(a, od) == "longformer_" \o a["dataset"].str \o "_" \o StrRepr(KeyValPairs(od))

(***************************************************************************)
(* The namespace args and the paths main derives from it.                  *)
(***************************************************************************)
\* args.k = v (setattr on the namespace)
ArgSet(a, k, v) == [x \in DOMAIN a \cup {k} |-> IF x = k THEN v ELSE a[x]]

\* lines 138-139
SetEvalSegments(a) ==
    IF a["eval_model"] = PyBool(TRUE) THEN ArgSet(a, "max_training_segments", None) ELSE a

\* lines 142-145: the default mode
DefaultDirs(a, name) ==
    LET model_dir == path_join(a["base_model_dir"].str, name)
        best_model_dir == path_join(model_dir, "best_models")
    IN  ArgSet(ArgSet(a, "model_dir", PyStr(model_dir)),
               "best_model_dir", PyStr(best_model_dir))

\* lines 146, 148 and 181 without the existence check
DirMissingUnchecked(fsys, d) == TRUE

\* the conditions of lines 146, 148 and 181
DirMissing(fsys, d) == ~path_exists(fsys, d)

\* lines 151-154 without the fallback to the model directory
OverrideDirsNoFallback(a, fsys) ==
    ArgSet(a, "best_model_dir", PyStr(path_join(a["model_dir"].str, "best_models")))

\* lines 151-154: the override mode
OverrideDirs(a, fsys) ==
    LET best_model_dir == path_join(a["model_dir"].str, "best_models") IN
    IF ~path_exists(fsys, best_model_dir)
    THEN ArgSet(a, "best_model_dir", a["model_dir"])
    ELSE ArgSet(a, "best_model_dir", PyStr(best_model_dir))

\* lines 158-175
ResolveDataDirs(a) ==
    LET dataset == a["dataset"].str
        split == Str(a["cross_val_split"])
    IN  IF a["data_dir"] = None
        THEN LET root == a["base_data_dir"].str IN
             IF dataset = "litbank"
             THEN ArgSet(ArgSet(a, "data_dir",
                      PyStr(path_join(root, dataset \o "/independent/" \o split))),
                      "conll_data_dir",
                      PyStr(path_join(root, dataset \o "/conll/" \o split)))
             ELSE IF dataset = "ontonotes"
             THEN ArgSet(ArgSet(a, "data_dir",
                      PyStr(path_join(root, dataset \o "/independent"))),
                      "conll_data_dir",
                      PyStr(path_join(root, dataset \o "/conll")))
             ELSE ArgSet(a, "conll_data_dir", None)
        ELSE LET base_dir == path_dirname(RStripSlash(a["data_dir"].str)) IN
             IF dataset = "litbank"
             THEN ArgSet(ArgSet(a, "data_dir",
                      PyStr(path_join(a["data_dir"].str, split))),
                      "conll_data_dir",
                      PyStr(path_join(base_dir, "conll/" \o split)))
             ELSE IF dataset = "ontonotes"
             THEN ArgSet(a, "conll_data_dir", PyStr(path_join(base_dir, "conll")))
             ELSE ArgSet(a, "conll_data_dir", None)

\* line 180 with another directory name
LogDirMisnamed(a) == path_join(a["model_dir"].str, "log")

\* line 180
LogDir(a) == path_join(a["model_dir"].str, "logs")

\* line 184
ConfigFile(a) == path_join(a["model_dir"].str, "config")

\* lines 186-188: the lines written, in the order of opt_dict.items()
ConfigLines(od) == [i \in 1..Len(od) |-> od[i][1] \o ": " \o Str(od[i][2])]

\* the file after the buffered lines are flushed at offset 0 on close: they
\* replace the start of what the file holds by then
Flush(fsys, p, lines) ==
    LET old == IF path_exists(fsys, p) /\ ~path_isdir(fsys, p)
               THEN fsys[FsKey(p)].lines ELSE <<>>
        rest == IF Len(old) > Len(lines)
                THEN SubSeq(old, Len(lines) + 1, Len(old)) ELSE <<>>
    IN  FsPut(fsys, p, File(lines \o rest))

\* the exception of a step caught and dropped
PcAfterCaught(err, next) == next

\* main catches nothing: an exception of a step ends main (lines 141-190)
PcAfter(err, next) == IF err # "" THEN "raised" ELSE next

(***************************************************************************)
(* The steps of one invocation p of main.                                  *)
(***************************************************************************)
Invocations == 1..NumInvocations

Finished(p) == pc[p] \in {"done", "raised"}

Goto(p, next) == pc' = [pc EXCEPT ![p] = next]

Complete(p, step) == completed' = [completed EXCEPT ![p] = @ \cup {step}]

\* lines 108-139
Resolve(p) ==
    /\ pc[p] = "start"
    /\ LET changed == ChangedOpts(args[p], imp_order, fs)
           od == OptDict(args[p], arg_order, changed)
       IN  /\ changed_opts' = [changed_opts EXCEPT ![p] = changed]
           /\ opt_dict' = [opt_dict EXCEPT ![p] = od]
           /\ model_name' = [model_name EXCEPT ![p] = ModelName(args[p], od)]
    /\ args' = [args EXCEPT ![p] = SetEvalSegments(@)]
    /\ Complete(p, "run_name")
    /\ Goto(p, "bootstrap")
    /\ UNCHANGED <<makedirs_frames, cli, imp_order, arg_order, fs, fs0, exc, experiment_calls>>

\* lines 141-146
BootstrapDefault(p) ==
    /\ pc[p] = "bootstrap"
    /\ args[p]["model_dir"] = None
    /\ LET a == DefaultDirs(args[p], model_name[p]) IN
       /\ args' = [args EXCEPT ![p] = a]
       /\ Goto(p, IF DirMissing(fs, a["model_dir"].str) THEN "mk_model_dir" ELSE "chk_best")
    /\ UNCHANGED <<makedirs_frames, cli, imp_order, arg_order, fs, fs0, changed_opts, opt_dict,
                   model_name, completed, exc, experiment_calls>>

\* one filesystem call of os.makedirs(d); when the call returns main goes on
\* to next, when it raises main ends
MakeDir(p, d, next, step) ==
    LET frames == IF makedirs_frames[p] = <<>> THEN <<MakedirsEnter(d)>>
                  ELSE makedirs_frames[p]
        r == MakedirsCall(fs, frames)
    IN
    /\ fs' = r.fs
    /\ makedirs_frames' = [makedirs_frames EXCEPT ![p] = r.frames]
    /\ IF r.over
       THEN /\ exc' = [exc EXCEPT ![p] = r.err]
            /\ Goto(p, PcAfter(r.err, next))
            /\ completed' = [completed EXCEPT ![p] = IF r.err = "" THEN @ \cup step ELSE @]
       ELSE UNCHANGED <<exc, pc, completed>>
    /\ UNCHANGED <<cli, imp_order, arg_order, fs0, args, changed_opts, opt_dict,
                   model_name, experiment_calls>>

\* line 147: one filesystem call of os.makedirs(model_dir)
MakeModelDir(p) ==
    /\ pc[p] = "mk_model_dir"
    /\ MakeDir(p, args[p]["model_dir"].str, "chk_best", {})

\* line 148
CheckBestDir(p) ==
    /\ pc[p] = "chk_best"
    /\ IF DirMissing(fs, args[p]["best_model_dir"].str)
       THEN Goto(p, "mk_best") /\ UNCHANGED completed
       ELSE Goto(p, "paths") /\ Complete(p, "bootstrap")
    /\ UNCHANGED <<makedirs_frames, cli, imp_order, arg_order, fs, fs0, args, changed_opts, opt_dict,
                   model_name, exc, experiment_calls>>

\* line 149: one filesystem call of os.makedirs(best_model_dir)
MakeBestDir(p) ==
    /\ pc[p] = "mk_best"
    /\ MakeDir(p, args[p]["best_model_dir"].str, "paths", {"bootstrap"})

\* lines 150-154
BootstrapOverride(p) ==
    /\ pc[p] = "bootstrap"
    /\ args[p]["model_dir"] # None
    /\ args' = [args EXCEPT ![p] = OverrideDirs(@, fs)]
    /\ Complete(p, "bootstrap")
    /\ Goto(p, "paths")
    /\ UNCHANGED <<makedirs_frames, cli, imp_order, arg_order, fs, fs0, changed_opts, opt_dict,
                   model_name, exc, experiment_calls>>

\* lines 156-177
ResolvePaths(p) ==
    /\ pc[p] = "paths"
    /\ args' = [args EXCEPT ![p] = ResolveDataDirs(@)]
    /\ Complete(p, "paths")
    /\ Goto(p, "chk_logs")
    /\ UNCHANGED <<makedirs_frames, cli, imp_order, arg_order, fs, fs0, changed_opts, opt_dict,
                   model_name, exc, experiment_calls>>

\* lines 180-181
CheckLogDir(p) ==
    /\ pc[p] = "chk_logs"
    /\ IF DirMissing(fs, LogDir(args[p]))
       THEN Goto(p, "mk_logs") /\ UNCHANGED completed
       ELSE Goto(p, "open_config") /\ Complete(p, "logs")
    /\ UNCHANGED <<makedirs_frames, cli, imp_order, arg_order, fs, fs0, args, changed_opts, opt_dict,
                   model_name, exc, experiment_calls>>

\* line 182: one filesystem call of os.makedirs(log_dir)
MakeLogDir(p) ==
    /\ pc[p] = "mk_logs"
    /\ MakeDir(p, LogDir(args[p]), "open_config", {"logs"})

\* lines 184-185: open(config_file, 'w')
OpenConfig(p) ==
    /\ pc[p] = "open_config"
    /\ LET r == open_w(fs, ConfigFile(args[p])) IN
       /\ fs' = r.fs
       /\ exc' = [exc EXCEPT ![p] = r.err]
       /\ Goto(p, PcAfter(r.err, "write_config"))
    /\ UNCHANGED <<makedirs_frames, cli, imp_order, arg_order, fs0, args, changed_opts, opt_dict,
                   model_name, completed, experiment_calls>>

\* lines 186-188 and the close of the with block
WriteConfig(p) ==
    /\ pc[p] = "write_config"
    /\ fs' = Flush(fs, ConfigFile(args[p]), ConfigLines(opt_dict[p]))
    /\ Complete(p, "config")
    /\ Goto(p, "handoff")
    /\ UNCHANGED <<makedirs_frames, cli, imp_order, arg_order, fs0, args, changed_opts, opt_dict,
                   model_name, exc, experiment_calls>>

\* line 190
Experiment(p) ==
    /\ pc[p] = "handoff"
    /\ experiment_calls' = [experiment_calls EXCEPT ![p] = @ + 1]
    /\ Goto(p, "done")
    /\ UNCHANGED <<makedirs_frames, cli, imp_order, arg_order, fs, fs0, args, changed_opts, opt_dict,
                   model_name, completed, exc>>

\* one step of invocation p
Step(p) ==
    \/ Resolve(p)
    \/ BootstrapDefault(p)
    \/ MakeModelDir(p)
    \/ CheckBestDir(p)
    \/ MakeBestDir(p)
    \/ BootstrapOverride(p)
    \/ ResolvePaths(p)
    \/ CheckLogDir(p)
    \/ MakeLogDir(p)
    \/ OpenConfig(p)
    \/ WriteConfig(p)
    \/ Experiment(p)

\* the same command line is run again once the previous invocation has ended
Rerun(p) ==
    /\ p > 1
    /\ pc[p] = "idle"
    /\ Finished(p - 1)
    /\ Goto(p, "start")
    /\ UNCHANGED <<makedirs_frames, cli, imp_order, arg_order, fs, fs0, args, changed_opts, opt_dict,
                   model_name, completed, exc, experiment_calls>>

\* between two invocations somebody deletes the singleton file
DeleteSingleton ==
    /\ cli["singleton_file"] # None
    /\ path_exists(fs, cli["singleton_file"].str)
    /\ \A p \in Invocations : pc[p] = "idle" \/ Finished(p)
    /\ \E p \in Invocations : pc[p] = "idle"
    /\ fs' = [q \in DOMAIN fs \ {FsKey(cli["singleton_file"].str)} |-> fs[q]]
    /\ UNCHANGED <<makedirs_frames, cli, imp_order, arg_order, fs0, pc, args, changed_opts, opt_dict,
                   model_name, completed, exc, experiment_calls>>

(***************************************************************************)
(* The command lines and the filesystems the runs start from.              *)
(***************************************************************************)
\* options of imp_opts with a value other than the default, as the command
\* line may give them
VariedOpts == <<
    <<"model_size", PyStr("base")>>,
    <<"max_segment_len", PyInt(4096)>>,
    <<"seed", PyInt(7)>>,
    <<"dropout_rate", PyFloat("0.5")>>,
    <<"doc_class", PyStr("genre")>>,
    <<"num_train_docs", PyInt(10)>> >>

SingletonFiles == {None, PyStr("../data/sing.jsonl")}
BaseModelDirs == {PyStr("../models"), PyStr("runs/")}
ModelDirs == {None, PyStr("old")}
BaseDataDirs == {PyStr("../data/"), PyStr("/data")}
DataDirs == {None, PyStr("/corpus/independent/")}

\* parse_args: the defaults, then what the command line sets
ParseArgs(set) ==
    [d \in {ArgDests[i] : i \in 1..Len(ArgDests)} |->
        IF d \in DOMAIN set THEN set[d] ELSE get_default(d)]

\* the options the command line sets: chosen names the varied options given
VariedSet(chosen) ==
    [k \in {VariedOpts[i][1] : i \in chosen} |->
        VariedOpts[CHOOSE i \in chosen : VariedOpts[i][1] = k][2]]

CommandLine(chosen, dataset, split, singleton, base_model, model_dir, base_data, data_dir) ==
    ParseArgs(VariedSet(chosen) @@
        [dataset |-> PyStr(dataset), cross_val_split |-> PyInt(split),
         singleton_file |-> singleton, base_model_dir |-> base_model,
         model_dir |-> model_dir, base_data_dir |-> base_data, data_dir |-> data_dir])

\* what is always there: the parent and the root directory, the data root
FsRoots == [q \in {"..", "/", "../data"} |-> Dir]

\* a config file an earlier run left in a model directory
StaleConfig == File(<<"max_epochs: 50", "seed: 3", "top_span_ratio: 0.5">>)

\* the filesystem with path p as kind says: "absent", "plain" (an empty
\* directory), "dir" (a directory that holds an earlier run's config),
\* "dir+best" (with best_models too) or "file" (a regular file)
FsWith(fsys, p, kind) ==
    IF kind = "plain" THEN FsPut(fsys, p, Dir)
    ELSE IF kind = "dir" THEN FsPut(FsPut(fsys, p, Dir), path_join(p, "config"), StaleConfig)
    ELSE IF kind = "dir+best"
    THEN FsPut(FsPut(FsPut(fsys, p, Dir), path_join(p, "config"), StaleConfig),
               path_join(p, "best_models"), Dir)
    ELSE IF kind = "file" THEN FsPut(fsys, p, File(<<>>))
    ELSE fsys

\* k = 0: the order of the code; k = 1: reversed; k >= 2: rotated by k - 1
Permute(seq, k) ==
    IF k = 0 THEN seq
    ELSE IF k = 1 THEN [i \in 1..Len(seq) |-> seq[Len(seq) + 1 - i]]
    ELSE [i \in 1..Len(seq) |-> seq[((i + k - 2) % Len(seq)) + 1]]

\* the state of the invocations before any has started, but for pc
InitLocals ==
    /\ args = [p \in Invocations |-> cli]
    /\ changed_opts = [p \in Invocations |-> <<>>]
    /\ opt_dict = [p \in Invocations |-> <<>>]
    /\ model_name = [p \in Invocations |-> ""]
    /\ completed = [p \in Invocations |-> {}]
    /\ exc = [p \in Invocations |-> ""]
    /\ makedirs_frames = [p \in Invocations |-> <<>>]
    /\ experiment_calls = [p \in Invocations |-> 0]

(***************************************************************************)
(* Spec: main is invoked NumInvocations times in a row on one command      *)
(* line, each invocation on the filesystem the previous one left.          *)
(***************************************************************************)
Init ==
    /\ \E chosen \in SUBSET (1..NumVaried), dataset \in Datasets,
          singleton \in SingletonFiles, model_dir \in ModelDirs,
          base_model \in BaseModelDirs, data_dir \in DataDirs :
       \E split \in 0..MaxSplit,
          base_data \in (IF data_dir = None THEN BaseDataDirs ELSE {PyStr("../data/")}),
          sing_there \in (IF singleton = None THEN {FALSE} ELSE BOOLEAN),
          kind \in (IF model_dir = None THEN {"absent", "plain", "file"}
                    ELSE {"absent", "dir", "dir+best", "file"}) :
        /\ cli = CommandLine(chosen, dataset, split, singleton, base_model,
                             model_dir, base_data, data_dir)
        /\ fs0 = FsWith(IF sing_there THEN FsPut(FsRoots, singleton.str, File(<<>>))
                        ELSE FsRoots,
                        IF model_dir = None THEN base_model.str ELSE model_dir.str,
                        kind)
    /\ fs = fs0
    /\ imp_order = imp_opts
    /\ arg_order = ArgDests
    /\ pc = [p \in Invocations |-> IF p = 1 THEN "start" ELSE "idle"]
    /\ InitLocals

Next ==
    \/ \E p \in Invocations : Step(p)
    \/ \E p \in Invocations : Rerun(p)
    \/ DeleteSingleton

Spec == Init /\ [][Next]_vars

(***************************************************************************)
(* SpecName: the run name as a function of the command line, computed      *)
(* under several iteration orders of imp_opts and of vars(args).           *)
(***************************************************************************)
InitName ==
    /\ \E chosen \in SUBSET (1..NumVaried), dataset \in Datasets,
          split \in 0..MaxSplit, singleton \in SingletonFiles,
          eval \in BOOLEAN, ki \in 0..MaxPerm, ka \in 0..MaxPerm :
       \E sing_there \in (IF singleton = None THEN {FALSE} ELSE BOOLEAN) :
        /\ cli = [CommandLine(chosen, dataset, split, singleton, PyStr("../models"),
                              None, PyStr("../data/"), None)
                  EXCEPT !["eval_model"] = PyBool(eval)]
        /\ fs0 = IF sing_there THEN FsPut(FsRoots, singleton.str, File(<<>>))
                 ELSE FsRoots
        /\ imp_order = Permute(imp_opts, ki)
        /\ arg_order = Permute(ArgDests, ka)
    /\ fs = fs0
    /\ pc = [p \in Invocations |-> IF p = 1 THEN "start" ELSE "idle"]
    /\ InitLocals

NextName == \E p \in Invocations : Resolve(p)

SpecName == InitName /\ [][NextName]_vars

(***************************************************************************)
(* SpecConc: NumInvocations processes run main on one command line at the  *)
(* same time; every filesystem call is one step.                           *)
(***************************************************************************)
InitConc ==
    /\ \E chosen \in SUBSET (1..NumVaried), dataset \in Datasets,
          model_dir \in ModelDirs :
       \E kind \in (IF model_dir = None THEN {"absent", "plain"}
                    ELSE {"absent", "dir", "dir+best"}) :
        /\ cli = CommandLine(chosen, dataset, 0, None, PyStr("../models"),
                             model_dir, PyStr("../data/"), None)
        /\ fs0 = FsWith(FsRoots,
                        IF model_dir = None THEN "../models" ELSE model_dir.str,
                        kind)
    /\ fs = fs0
    /\ imp_order = imp_opts
    /\ arg_order = ArgDests
    /\ pc = [p \in Invocations |-> "start"]
    /\ InitLocals

NextConc == \E p \in Invocations : Step(p)

SpecConc == InitConc /\ [][NextConc]_vars

(***************************************************************************)
(* Properties.                                                             *)
(***************************************************************************)
\* p has derived its run name
Named(p) == "run_name" \in completed[p]

\* "R/rel" as a path
Under(root, rel) ==
    IF CharAt(root, Len(root)) = "/" THEN root \o rel ELSE root \o "/" \o rel

IsDir(fsys, p) == p \in DOMAIN fsys /\ fsys[p].kind = "dir"
IsFile(fsys, p) == p \in DOMAIN fsys /\ fsys[p].kind = "file"

\* the options that enter the name: the allow-listed ones that differ from
\* their default, and cross_val_split for litbank
ResolvedKeys(c) ==
    {k \in {imp_opts[i] : i \in 1..Len(imp_opts)} : c[k] # get_default(k)}
    \cup (IF c["dataset"] = PyStr("litbank") THEN {"cross_val_split"} ELSE {})

RECURSIVE RenderAscending(_, _)
\* the "key_value" renderings of keys joined by "_", least key first
RenderAscending(keys, c) ==
    IF keys = {} THEN ""
    ELSE LET k == CHOOSE k \in keys : \A j \in keys \ {k} : StrLess(k, j)
             rest == keys \ {k}
         IN  k \o "_" \o Str(c[k])
             \o (IF rest = {} THEN "" ELSE "_" \o RenderAscending(rest, c))

CanonicalName(c) ==
    "longformer_" \o c["dataset"].str \o "_" \o RenderAscending(ResolvedKeys(c), c)

\* C1: the run name is a function of the dataset and of the resolved options
\* alone: "longformer_<dataset>_" followed by their "key_value" renderings
\* joined by "_" in ascending key order, whatever the iteration order of
\* imp_opts and of vars(args) (and the bare prefix when nothing is resolved).
C1_RunNameCanonical ==
    \A p \in Invocations : Named(p) =>
        /\ model_name[p] = CanonicalName(cli)
        /\ (ResolvedKeys(cli) = {} =>
                model_name[p] = "longformer_" \o cli["dataset"].str \o "_")
        /\ (/\ cli["dataset"] = PyStr("litbank")
            /\ cli["cross_val_split"] = PyInt(1)
            /\ ResolvedKeys(cli) = {"cross_val_split", "model_size", "max_segment_len"}
            => model_name[p] =
                "longformer_litbank_cross_val_split_1_max_segment_len_4096_model_size_base")

\* C1 witness: a name derived under permuted orders from an option dict
\* whose insertion order is not the sorted one
C1_Witness ==
    /\ Named(1)
    /\ imp_order # imp_opts
    /\ arg_order # ArgDests
    /\ Len(opt_dict[1]) >= 2
    /\ opt_dict[1] # sorted(opt_dict[1])

\* C2: the map the run name and the config record are built from holds the
\* key singleton iff a singleton file was given and exists at resolution
\* time, with the file's base name as value.
C2_SingletonIffFileExists ==
    \A p \in Invocations : (Named(p) /\ ~Finished(p)) =>
        /\ ("singleton" \in DictKeys(opt_dict[p]))
            <=> (/\ cli["singleton_file"] # None
                 /\ path_exists(fs, cli["singleton_file"].str))
        /\ ("singleton" \in DictKeys(opt_dict[p]) =>
                DictGet(opt_dict[p], "singleton")
                    = PyStr(path_basename(cli["singleton_file"].str)))

\* C3: with no -data_dir, for base data root R and split S: litbank gets
\* R/litbank/independent/S and R/litbank/conll/S, ontonotes gets
\* R/ontonotes/independent and R/ontonotes/conll, every other dataset gets
\* data_dir = R and no reference directory.
C3_PathsFromBaseRoot ==
    \A p \in Invocations : ("paths" \in completed[p] /\ cli["data_dir"] = None) =>
        LET root == cli["base_data_dir"].str
            split == Str(cli["cross_val_split"])
            a == args[p]
        IN  IF cli["dataset"] = PyStr("litbank")
            THEN /\ a["data_dir"] = PyStr(Under(root, "litbank/independent/" \o split))
                 /\ a["conll_data_dir"] = PyStr(Under(root, "litbank/conll/" \o split))
            ELSE IF cli["dataset"] = PyStr("ontonotes")
            THEN /\ a["data_dir"] = PyStr(Under(root, "ontonotes/independent"))
                 /\ a["conll_data_dir"] = PyStr(Under(root, "ontonotes/conll"))
            ELSE /\ a["data_dir"] = PyStr(root)
                 /\ a["conll_data_dir"] = None

\* C4: once the config record is written, <run_dir>/config holds exactly
\* one line "key: value" per entry of the resolved map, in ascending key
\* order, and nothing of what it held before.
C4_ConfigSortedLines ==
    \A p \in Invocations : pc[p] = "handoff" =>
        LET f == FsKey(args[p]["model_dir"].str) \o "/config" IN
        /\ IsFile(fs, f)
        /\ fs[f].lines = [i \in 1..Len(opt_dict[p]) |->
                LET kv == sorted(opt_dict[p])[i] IN kv[1] \o ": " \o Str(kv[2])]

\* the layout under the run directory of invocation p
HasBestModels(fsys, p) == IsDir(fsys, FsKey(args[p]["model_dir"].str) \o "/best_models")
HasLogs(fsys, p) == IsDir(fsys, FsKey(args[p]["model_dir"].str) \o "/logs")
HasConfig(fsys, p) == IsFile(fsys, FsKey(args[p]["model_dir"].str) \o "/config")

HandedOff(p) == pc[p] \in {"handoff", "done"}

\* C5, as claimed: at the handoff to Experiment, in both modes, the
\* filesystem holds <run_dir>/best_models, <run_dir>/logs and <run_dir>/config.
C5_LayoutAtHandoff ==
    \A p \in Invocations : HandedOff(p) =>
        HasBestModels(fs, p) /\ HasLogs(fs, p) /\ HasConfig(fs, p)

\* C5, amended: at the handoff <run_dir>/logs and <run_dir>/config exist in
\* both modes; <run_dir>/best_models exists in the default mode, and in the
\* override mode exactly if it existed before main ran.
C5_LayoutAtHandoffAmended ==
    \A p \in Invocations : HandedOff(p) =>
        /\ HasLogs(fs, p)
        /\ HasConfig(fs, p)
        /\ (cli["model_dir"] = None => HasBestModels(fs, p))
        /\ (cli["model_dir"] # None => (HasBestModels(fs, p) <=> HasBestModels(fs0, p)))

\* C5 witness: a handoff in the override mode without <run_dir>/best_models
C5_Witness ==
    /\ HandedOff(1)
    /\ cli["model_dir"] # None
    /\ ~HasBestModels(fs, 1)
    /\ HasLogs(fs, 1)

\* C6: an invocation on the filesystem a completed invocation of the same
\* command line left does not raise and yields the same model_dir and
\* best_model_dir, in both modes.
C6_BootstrapIdempotent ==
    \A p \in Invocations : (p > 1 /\ pc[p - 1] = "done") =>
        /\ pc[p] # "raised"
        /\ ("bootstrap" \in completed[p] =>
                /\ args[p]["model_dir"] = args[p - 1]["model_dir"]
                /\ args[p]["best_model_dir"] = args[p - 1]["best_model_dir"])
        /\ (Finished(p) => pc[p] = "done")

\* C6 witness: a second invocation ended on directories the first one made
C6_Witness ==
    /\ pc[1] = "done"
    /\ pc[2] = "done"
    /\ cli["model_dir"] = None
    /\ ~path_exists(fs0, cli["base_model_dir"].str)
    /\ HasBestModels(fs, 2)

\* C7: with the override D, run_dir = D, and best_artifacts_dir is
\* D/best_models if that exists when the bootstrap runs, else D.
C7_OverrideDirs ==
    \A p \in Invocations : (cli["model_dir"] # None /\ pc[p] = "paths") =>
        LET D == cli["model_dir"].str IN
        /\ args[p]["model_dir"] = PyStr(D)
        /\ args[p]["best_model_dir"] =
              IF (D \o "/best_models") \in DOMAIN fs
              THEN PyStr(D \o "/best_models") ELSE PyStr(D)

\* C7 witness: the bootstrap found D/best_models
C7_Witness ==
    /\ cli["model_dir"] # None
    /\ pc[1] = "paths"
    /\ args[1]["best_model_dir"] = PyStr("old/best_models")

\* the override directory was given and was not there before main ran
OverrideAbsent == cli["model_dir"] # None /\ ~path_exists(fs0, cli["model_dir"].str)

\* C8, as claimed: an override directory that does not exist before main
\* is not brought into existence, the log-directory step included.
C8_OverrideNeverCreated ==
    OverrideAbsent => ~path_exists(fs, cli["model_dir"].str)

\* C8, amended: lines 150-154 create nothing, so an absent override
\* directory stays absent up to the log-directory step; that step's
\* os.makedirs creates it, as the parent of the logs subdirectory and then
\* that subdirectory, and does not raise.
C8_OverrideCreatedByLogStep ==
    OverrideAbsent =>
        LET D == cli["model_dir"].str IN
        /\ (pc[1] \in {"start", "bootstrap", "paths", "chk_logs"}
                => ~path_exists(fs, D))
        /\ (pc[1] = "mk_logs" /\ path_exists(fs, D)
                => /\ makedirs_frames[1] # <<>>
                   /\ makedirs_frames[1][1].name = D \o "/logs"
                   /\ ~path_exists(fs, D \o "/logs"))
        /\ (pc[1] \in {"open_config", "write_config", "handoff", "done"}
                => IsDir(fs, D) /\ IsDir(fs, D \o "/logs"))
        /\ pc[1] # "raised"

\* C8 witness: the log-directory step has created the absent override directory
C8_Witness ==
    /\ OverrideAbsent
    /\ pc[1] = "open_config"
    /\ IsDir(fs, cli["model_dir"].str)

\* C9: Experiment is invoked at most once per invocation of main, only
\* after the run name, the bootstrap, the path resolution, the log
\* directory and the config record are done; after an exception of any
\* step it is never invoked.
C9_ExperimentOnceAfterAll ==
    \A p \in Invocations :
        /\ experiment_calls[p] <= 1
        /\ (experiment_calls[p] = 1 =>
                /\ {"run_name", "bootstrap", "paths", "logs", "config"} \subseteq completed[p]
                /\ exc[p] = "")
        /\ (exc[p] # "" => experiment_calls[p] = 0 /\ pc[p] = "raised")
        /\ (pc[p] = "done" <=> experiment_calls[p] = 1)

\* C9 witness: a directory creation failed after the run name was derived
C9_Witness ==
    /\ exc[1] = "NotADirectoryError"
    /\ Named(1)
    /\ experiment_calls[1] = 0

\* C10: with processes bootstrapping the same run name at the same time, no
\* process fails on a directory creation: all reach the handoff, and the
\* config file ends up holding the record of the last writer.
C10_NoCreationFailure ==
    /\ \A p \in Invocations : pc[p] # "raised"
    /\ \A p \in Invocations : (\A q \in Invocations : Finished(q)) =>
            /\ pc[p] = "done"
            /\ HasConfig(fs, p)
            /\ fs[FsKey(args[p]["model_dir"].str) \o "/config"].lines
                   = ConfigLines(opt_dict[p])

====
